---- MODULE Spec2Model ----
(***************************************************************************)
(* Model of the request/validation helper module of the Theta Chain API    *)
(* test suite (src/utils/utils.js) together with the configuration it      *)
(* consumes (src/tests/functional/tokens.test.js, lines 523-569).          *)
(*                                                                         *)
(* Encoding of JavaScript values.  A JSON body is a record                 *)
(*   [type, text, props]  with props a sequence of <<key, value>> pairs    *)
(* in insertion order; a header mapping is a sequence of <<name, value>>   *)
(* pairs; an object with heterogeneous values (request options, the axios  *)
(* config) is a record that carries the set of its own property names in   *)
(* the field "keys".  A value handed to the validators is a record         *)
(*   [type, keys, items]  with keys the own property names in insertion    *)
(* order and items the elements of an array.                               *)
(***************************************************************************)
EXTENDS Integers, Sequences, FiniteSets, TLC

VARIABLES
  calls,       \* one record per makeRequest call
  responses,   \* what awaiting all the calls together yields
  config,      \* the configuration object the helpers read
  validation,  \* the arguments and the outcome of a validator call
  repeats,     \* successive validateSchema calls on the same arguments
  clock,       \* the system clock Date.now() reads, in ms
  measure,     \* the measurePerformance call
  runner,      \* the test runner and the createTestCase wrapper
  pairTest     \* a run of one of the token-pair tests on an unknown pair id

vars ==
  <<calls, responses, config, validation, repeats, clock, measure, runner,
    pairTest>>

requestVars == <<calls, responses, config>>

validateVars == <<validation, repeats>>

measureVars == <<clock, measure>>

(***************************************************************************)
(* Bounds of the model.                                                    *)
(***************************************************************************)
NCalls == 2

MaxKeys == 2

MaxRequired == 2

MaxItems == 2

(***************************************************************************)
(* Configuration (src/tests/functional/tokens.test.js:523-569).            *)
(***************************************************************************)
baseURL == "http://localhost:5006"

RequestTimeout == 5000

TestTimeout == 10000

configModule ==
  [baseURL |-> baseURL,
   timeouts |-> [request |-> RequestTimeout, test |-> TestTimeout]]

Endpoints == {"/api/tokens", "/api/token-pairs/0x12-0x09"}

(***************************************************************************)
(* JavaScript values used as bodies and headers.                           *)
(***************************************************************************)
JsString(s) == [type |-> "string", text |-> s, props |-> <<>>]

JsObject(props) == [type |-> "object", text |-> "", props |-> props]

JsUndefined == [type |-> "undefined", text |-> "", props |-> <<>>]

NoHeaders == <<>>

JsonHeaders == << <<"content-type", "application/json">> >>

HtmlHeaders == << <<"content-type", "text/html">> >>

(***************************************************************************)
(* Request options: none and a timeout as the call sites pass             *)
(* (tokens.test.js:11, 51-53), and a method and body (tokens.test.js:      *)
(* 77-80) together with caller headers.                                    *)
(***************************************************************************)
NoOptionValues ==
  [timeout |-> 0, method |-> "", data |-> JsUndefined, headers |-> NoHeaders]

OptionsOf(n) ==
  CASE n = 1 -> [keys |-> {}] @@ NoOptionValues
    [] n = 2 -> [keys |-> {"timeout"}, timeout |-> 1] @@ NoOptionValues
    [] n = 3 -> [keys |-> {"method", "data", "headers"}, method |-> "POST",
                 data |-> JsObject(<< <<"invalid", "data">> >>),
                 headers |-> << <<"Accept", "text/html">> >>] @@ NoOptionValues

OptionIds == 1..3

(***************************************************************************)
(* Object spread {...a, ...b}: own properties of b override those of a.    *)
(***************************************************************************)
Spread(a, b) ==
  [keys    |-> a.keys \cup b.keys,
   url     |-> IF "url" \in b.keys THEN b.url ELSE a.url,
   timeout |-> IF "timeout" \in b.keys THEN b.timeout ELSE a.timeout,
   method  |-> IF "method" \in b.keys THEN b.method ELSE a.method,
   data    |-> IF "data" \in b.keys THEN b.data ELSE a.data,
   headers |-> IF "headers" \in b.keys THEN b.headers ELSE a.headers]

Options(n) == [url |-> ""] @@ OptionsOf(n)

defaultOptions ==
  [keys |-> {"timeout", "headers"}, url |-> "",
   timeout |-> config.timeouts.request,
   method |-> "", data |-> JsUndefined,
   headers |-> << <<"Content-Type", "application/json">> >>]

\* Variant: a separator is inserted between the base URL and the endpoint.
UrlOfWithSlash(endpoint) == config.baseURL \o "/" \o endpoint

UrlOf(endpoint) == config.baseURL \o endpoint

UrlOnly(url) ==
  [keys |-> {"url"}, url |-> url, timeout |-> 0, method |-> "",
   data |-> JsUndefined, headers |-> NoHeaders]

AxiosConfig(url, options) == Spread(Spread(UrlOnly(url), defaultOptions), options)

(***************************************************************************)
(* The HTTP transport (axios) as the caller sees it: the promise is        *)
(* fulfilled with a response whose status passes validateStatus (2xx), or  *)
(* rejected with an error that carries the response (status outside 2xx),  *)
(* only the request (nothing came back: refused connection, timeout), or   *)
(* neither (the request was never built).                                  *)
(***************************************************************************)
Response(status, data, headers) ==
  [status |-> status, data |-> data, headers |-> headers]

NullResponse == Response(-1, JsUndefined, NoHeaders)

OkBody == JsObject(<< <<"success", "ok">> >>)

ServerResponses ==
  { Response(200, OkBody, JsonHeaders),
    Response(404, JsObject(<< <<"error", "Not found">> >>), JsonHeaders),
    Response(500, JsString("Server Error"), HtmlHeaders) }

IsSuccessStatus(status) == status >= 200 /\ status < 300

AxiosError(message, hasResponse, response, hasRequest) ==
  [message |-> message, hasResponse |-> hasResponse,
   response |-> response, hasRequest |-> hasRequest]

BadStatusErrors ==
  { AxiosError("Request failed with status code " \o ToString(r.status),
               TRUE, r, TRUE) :
      r \in { s \in ServerResponses : ~IsSuccessStatus(s.status) } }

NoResponseErrors(cfg) ==
  { AxiosError("connect ECONNREFUSED 127.0.0.1:5006", FALSE, NullResponse, TRUE) }
  \cup
  { AxiosError("timeout of " \o ToString(cfg.timeout) \o "ms exceeded",
               FALSE, NullResponse, TRUE) : t \in { x \in {cfg.timeout} : x > 0 } }

SetupErrors ==
  { AxiosError("Data after transformation must be a string",
               FALSE, NullResponse, FALSE) }

AxiosRejections(cfg) == BadStatusErrors \cup NoResponseErrors(cfg) \cup SetupErrors

AxiosFulfilments == { r \in ServerResponses : IsSuccessStatus(r.status) }

(***************************************************************************)
(* makeRequest (utils.js:10-50).  A completion is what the async function  *)
(* settles with: a returned value, or a thrown error (a rejected promise). *)
(***************************************************************************)
Returned(value, log) == [threw |-> FALSE, value |-> value, log |-> log]

Thrown(log) == [threw |-> TRUE, value |-> NullResponse, log |-> log]

\* Variant: a missing response reported as HTTP 408 instead of the sentinel 0.
NoResponseReceivedAs408 ==
  Response(408, JsObject(<< <<"error", "No response received">> >>), NoHeaders)

NoResponseReceived ==
  Response(0, JsObject(<< <<"error", "No response received">> >>), NoHeaders)

\* Variant: a fixed text instead of the failure's own description.
SetupFailureGeneric(message) ==
  Response(0, JsObject(<< <<"error", "Request setup error">> >>), NoHeaders)

SetupFailure(message) ==
  Response(0, JsObject(<< <<"error", message>> >>), NoHeaders)

makeRequestThen(response) ==
  Returned(response, <<"Response status: " \o ToString(response.status)>>)

\* Variant: the last branch of the catch block rethrows.
makeRequestCatchRethrow(url, error) ==
  LET first == <<"Request failed: " \o url \o " " \o error.message>>
  IN  IF error.hasResponse
        THEN Returned(error.response,
                      first \o <<"Response status: "
                                   \o ToString(error.response.status),
                                 "Response data:">>)
      ELSE IF error.hasRequest
        THEN Returned(NoResponseReceived, first \o <<"No response received">>)
      ELSE Thrown(first)

\* Variant: one branch for every error without a response, reporting the
\* error's own message.
makeRequestCatchMerged(url, error) ==
  LET first == <<"Request failed: " \o url \o " " \o error.message>>
  IN  IF error.hasResponse
        THEN Returned(error.response,
                      first \o <<"Response status: "
                                   \o ToString(error.response.status),
                                 "Response data:">>)
      ELSE Returned(SetupFailure(error.message),
                    first \o <<"Request setup error: " \o error.message>>)

\* Variant: error.request is tested before error.response.
makeRequestCatchRequestFirst(url, error) ==
  LET first == <<"Request failed: " \o url \o " " \o error.message>>
  IN  IF error.hasRequest
        THEN Returned(NoResponseReceived, first \o <<"No response received">>)
      ELSE IF error.hasResponse
        THEN Returned(error.response,
                      first \o <<"Response status: "
                                   \o ToString(error.response.status),
                                 "Response data:">>)
      ELSE Returned(SetupFailure(error.message),
                    first \o <<"Request setup error: " \o error.message>>)

makeRequestCatch(url, error) ==
  LET first == <<"Request failed: " \o url \o " " \o error.message>>
  IN  IF error.hasResponse
        THEN Returned(error.response,
                      first \o <<"Response status: "
                                   \o ToString(error.response.status),
                                 "Response data:">>)
      ELSE IF error.hasRequest
        THEN Returned(NoResponseReceived, first \o <<"No response received">>)
      ELSE Returned(SetupFailure(error.message),
                    first \o <<"Request setup error: " \o error.message>>)

(***************************************************************************)
(* One record per makeRequest call.  pc is the position of the async       *)
(* function: "idle" (not called yet), "awaiting" (suspended at the await   *)
(* of utils.js:21), "returned" or "threw" (the promise settled).           *)
(***************************************************************************)
NullError == AxiosError("", FALSE, NullResponse, FALSE)

NotSettled == [kind |-> "pending", response |-> NullResponse, error |-> NullError]

Fulfilled(response) ==
  [kind |-> "fulfilled", response |-> response, error |-> NullError]

Rejected(error) ==
  [kind |-> "rejected", response |-> NullResponse, error |-> error]

IdleCall ==
  [pc |-> "idle", endpoint |-> "", options |-> Options(1), url |-> "",
   sent |-> UrlOnly(""), dispatched |-> 0, transport |-> NotSettled,
   result |-> NullResponse, log |-> <<>>, finished |-> 0]

CallIds == 1..NCalls

\* Variant: a timeout override is written into the configuration.
MakeRequestDispatchStoresOverride(i, endpoint, n) ==
  /\ calls[i].pc = "idle"
  /\ \A j \in CallIds : j < i => calls[j].pc /= "idle"
  /\ LET url == UrlOf(endpoint)
     IN  /\ calls' = [calls EXCEPT ![i] =
               [@ EXCEPT !.pc = "awaiting",
                         !.endpoint = endpoint,
                         !.options = Options(n),
                         !.url = url,
                         !.sent = AxiosConfig(url, Options(n)),
                         !.dispatched = @ + 1,
                         !.log = <<"Making request to: " \o url>>]]
         /\ config' = [config EXCEPT !.timeouts.request =
                                        AxiosConfig(url, Options(n)).timeout]
  /\ UNCHANGED <<responses, validateVars, measureVars, runner, pairTest>>

\* utils.js:10-25: build the URL and the defaults, log, call axios, suspend.
MakeRequestDispatch(i, endpoint, n) ==
  /\ calls[i].pc = "idle"
  /\ \A j \in CallIds : j < i => calls[j].pc /= "idle"
  /\ LET url == UrlOf(endpoint)
     IN  calls' = [calls EXCEPT ![i] =
           [@ EXCEPT !.pc = "awaiting",
                     !.endpoint = endpoint,
                     !.options = Options(n),
                     !.url = url,
                     !.sent = AxiosConfig(url, Options(n)),
                     !.dispatched = @ + 1,
                     !.log = <<"Making request to: " \o url>>]]
  /\ UNCHANGED <<responses, config, validateVars, measureVars, runner, pairTest>>

\* The number of calls that have settled so far.
Finished == Cardinality({ j \in CallIds : calls[j].finished > 0 })

Settle(call, transport, completion) ==
  [call EXCEPT !.pc = IF completion.threw THEN "threw" ELSE "returned",
               !.transport = transport,
               !.result = completion.value,
               !.log = @ \o completion.log,
               !.finished = Finished + 1]

\* utils.js:26-27: the awaited promise is fulfilled.
MakeRequestOnResponse(i, response) ==
  /\ calls[i].pc = "awaiting"
  /\ calls' = [calls EXCEPT ![i] =
                 Settle(@, Fulfilled(response), makeRequestThen(response))]
  /\ UNCHANGED <<responses, config, validateVars, measureVars, runner, pairTest>>

\* Variant: a request that got no response is sent a second time.
MakeRequestOnErrorRetry(i, error) ==
  /\ calls[i].pc = "awaiting"
  /\ calls' = [calls EXCEPT ![i] =
                 IF ~error.hasResponse /\ error.hasRequest /\ calls[i].dispatched < 2
                   THEN [@ EXCEPT !.dispatched = @ + 1]
                   ELSE Settle(@, Rejected(error),
                               makeRequestCatch(calls[i].url, error))]
  /\ UNCHANGED <<responses, config, validateVars, measureVars, runner, pairTest>>

\* utils.js:28-49: the awaited promise is rejected.
MakeRequestOnError(i, error) ==
  /\ calls[i].pc = "awaiting"
  /\ calls' = [calls EXCEPT ![i] =
                 Settle(@, Rejected(error), makeRequestCatch(calls[i].url, error))]
  /\ UNCHANGED <<responses, config, validateVars, measureVars, runner, pairTest>>

(***************************************************************************)
(* Values handed to the validators, and schemas                            *)
(* (tokens.test.js:549-562: {required: [...], optional: [...]}).           *)
(***************************************************************************)
JsValue(type, keys, items) == [type |-> type, keys |-> keys, items |-> items]

JsRecord(keys) == JsValue("object", keys, <<>>)

JsArray(items) == JsValue("array", <<>>, items)

JsNull == JsValue("null", <<>>, <<>>)

JsUndef == JsValue("undefined", <<>>, <<>>)

JsNumber == JsValue("number", <<>>, <<>>)

SeqsUpTo(S, n) == UNION { [1..k -> S] : k \in 0..n }

NoDuplicates(s) == \A i, j \in 1..Len(s) : s[i] = s[j] => i = j

RequiredNames == {"id", "symbol"}

FieldNames == RequiredNames \cup {"logo"}

RecordValues ==
  { JsRecord(ks) : ks \in { s \in SeqsUpTo(FieldNames, MaxKeys) : NoDuplicates(s) } }

ItemValues == RecordValues \cup {JsNull, JsUndef, JsNumber}

ArrayValues == { JsArray(items) : items \in SeqsUpTo(ItemValues, MaxItems) }

Schema(keys, required, optional) ==
  [keys |-> keys, required |-> required, optional |-> optional]

Schemas ==
  { Schema({"required", "optional"}, r, o) :
      r \in SeqsUpTo(RequiredNames, MaxRequired), o \in {<<>>, <<"logo">>, <<"id">>} }
  \cup { Schema({}, <<>>, <<>>) }

(***************************************************************************)
(* validateSchema (utils.js:58-72) and validateArraySchema (utils.js:      *)
(* 80-100).  The outcome of a call is a returned ValidationResult or a     *)
(* thrown TypeError.                                                       *)
(***************************************************************************)
ValidationResult(isValid, errors) ==
  [threw |-> FALSE, exception |-> "", isValid |-> isValid, errors |-> errors]

ValidationThrow(exception) ==
  [threw |-> TRUE, exception |-> exception, isValid |-> FALSE, errors |-> <<>>]

IsNullish(value) == value.type \in {"null", "undefined"}

\* value.hasOwnProperty(field), for a value that is not null or undefined.
hasOwnProperty(value, field) == \E i \in 1..Len(value.keys) : value.keys[i] = field

RECURSIVE ForEachRequiredSkipLast(_, _, _, _)
\* Variant: the loop stops one key short of the end of schema.required.
ForEachRequiredSkipLast(response, required, i, errors) ==
  IF i >= Len(required) THEN ValidationResult(Len(errors) = 0, errors)
  ELSE IF IsNullish(response) THEN ValidationThrow("TypeError")
  ELSE ForEachRequiredSkipLast(response, required, i + 1,
         IF ~hasOwnProperty(response, required[i])
           THEN Append(errors, "Missing required field: " \o required[i])
           ELSE errors)

RECURSIVE ForEachRequiredFailFast(_, _, _, _)
\* Variant: the loop stops at the first missing key.
ForEachRequiredFailFast(response, required, i, errors) ==
  IF i > Len(required) \/ Len(errors) > 0
    THEN ValidationResult(Len(errors) = 0, errors)
  ELSE IF IsNullish(response) THEN ValidationThrow("TypeError")
  ELSE ForEachRequiredFailFast(response, required, i + 1,
         IF ~hasOwnProperty(response, required[i])
           THEN Append(errors, "Missing required field: " \o required[i])
           ELSE errors)

RECURSIVE ForEachRequired(_, _, _, _)
\* utils.js:62-66: the forEach over schema.required, from index i on.
ForEachRequired(response, required, i, errors) ==
  IF i > Len(required) THEN ValidationResult(Len(errors) = 0, errors)
  ELSE IF IsNullish(response) THEN ValidationThrow("TypeError")
  ELSE ForEachRequired(response, required, i + 1,
         IF ~hasOwnProperty(response, required[i])
           THEN Append(errors, "Missing required field: " \o required[i])
           ELSE errors)

validateSchema(response, schema) ==
  IF "required" \notin schema.keys THEN ValidationThrow("TypeError")
  ELSE ForEachRequired(response, schema.required, 1, <<>>)

RECURSIVE PrefixErrorsOneBased(_, _, _)
\* Variant: items are numbered from 1.
PrefixErrorsOneBased(index, itemErrors, k) ==
  IF k > Len(itemErrors) THEN <<>>
  ELSE <<"Item " \o ToString(index + 1) \o ": " \o itemErrors[k]>>
         \o PrefixErrorsOneBased(index, itemErrors, k + 1)

RECURSIVE PrefixErrors(_, _, _)
\* utils.js:91-93: push "Item <index>: <error>" for each error, from k on.
PrefixErrors(index, itemErrors, k) ==
  IF k > Len(itemErrors) THEN <<>>
  ELSE <<"Item " \o ToString(index) \o ": " \o itemErrors[k]>>
         \o PrefixErrors(index, itemErrors, k + 1)

RECURSIVE ForEachItemLastValidity(_, _, _, _)
\* Variant: isValid is the validity of the last item instead of the
\* emptiness of the collected errors.
ForEachItemLastValidity(items, schema, n, errors) ==
  IF n > Len(items)
    THEN ValidationResult(
           Len(items) = 0 \/ validateSchema(items[Len(items)], schema).isValid,
           errors)
  ELSE LET validation_ == validateSchema(items[n], schema)
       IN  IF validation_.threw THEN validation_
           ELSE ForEachItemLastValidity(items, schema, n + 1,
                  errors \o PrefixErrors(n - 1, validation_.errors, 1))

RECURSIVE ForEachItem(_, _, _, _)
\* utils.js:89-94: the forEach over the array, from position n (index n-1) on.
ForEachItem(items, schema, n, errors) ==
  IF n > Len(items) THEN ValidationResult(Len(errors) = 0, errors)
  ELSE LET validation_ == validateSchema(items[n], schema)
       IN  IF validation_.threw THEN validation_
           ELSE ForEachItem(items, schema, n + 1,
                            errors \o PrefixErrors(n - 1, validation_.errors, 1))

\* Variant: the guard is typeof response !== 'object', which lets null and
\* plain objects through to response.forEach.
validateArraySchemaTypeof(response, schema) ==
  IF response.type \notin {"array", "object", "null"}
    THEN ValidationResult(FALSE, <<"Response is not an array">>)
  ELSE IF response.type /= "array" THEN ValidationThrow("TypeError")
  ELSE ForEachItem(response.items, schema, 1, <<>>)

validateArraySchema(response, schema) ==
  IF response.type /= "array"
    THEN ValidationResult(FALSE, <<"Response is not an array">>)
    ELSE ForEachItem(response.items, schema, 1, <<>>)

\* The validators' inputs before the call: no function applied yet.
Pending(response, schema) ==
  [fn |-> "none", response |-> response, schema |-> schema,
   result |-> ValidationResult(TRUE, <<>>)]

NoValidation == Pending(JsUndef, Schema({}, <<>>, <<>>))

ValidateSchemaCall ==
  /\ validation.fn = "none"
  /\ validation' =
       [validation EXCEPT !.fn = "validateSchema",
          !.result = validateSchema(validation.response, validation.schema)]
  /\ UNCHANGED <<requestVars, repeats, measureVars, runner, pairTest>>

ValidateArraySchemaCall ==
  /\ validation.fn = "none"
  /\ validation' =
       [validation EXCEPT !.fn = "validateArraySchema",
          !.result = validateArraySchema(validation.response, validation.schema)]
  /\ UNCHANGED <<requestVars, repeats, measureVars, runner, pairTest>>

(***************************************************************************)
(* Awaiting several calls together (tokens.test.js:123-126,                *)
(* utils.js:391-395): Promise.all fulfils, once every promise has          *)
(* fulfilled, with the values in the order of the promises, and rejects    *)
(* when one of them rejects.                                               *)
(***************************************************************************)
NotJoined == [joined |-> FALSE, threw |-> FALSE, values |-> <<>>]

\* Variant: the values are collected in the order the calls completed.
PromiseAllByCompletion(cs) ==
  [joined |-> TRUE,
   threw |-> \E k \in CallIds : cs[k].pc = "threw",
   values |-> [k \in CallIds |->
                 cs[CHOOSE j \in CallIds : cs[j].finished = k].result]]

PromiseAll(cs) ==
  [joined |-> TRUE,
   threw |-> \E k \in CallIds : cs[k].pc = "threw",
   values |-> [k \in CallIds |-> cs[k].result]]

AwaitAll ==
  /\ ~responses.joined
  /\ \A k \in CallIds : calls[k].pc \in {"returned", "threw"}
  /\ responses' = PromiseAll(calls)
  /\ UNCHANGED <<calls, config, validateVars, measureVars, runner, pairTest>>

(***************************************************************************)
(* measurePerformance (utils.js:125-136).  Date.now() reads the system     *)
(* clock, which advances while the operation is pending and which the      *)
(* system may set back (it is not a monotonic clock).                      *)
(***************************************************************************)
DefaultMaxTime == 1000

ClockValues == {0, 1000, 1500, 6000, 7000}

\* The maxTime argument: absent (undefined), or a number the call sites pass
\* (tokens.test.js:115).
NoLimit == [given |-> FALSE, value |-> 0]

Limit(ms) == [given |-> TRUE, value |-> ms]

LimitArgs == {NoLimit, Limit(6000)}

\* The default parameter maxTime = 1000.
maxTimeOf(arg) == IF arg.given THEN arg.value ELSE DefaultMaxTime

\* What the measured operation resolves to: the records makeRequest returns.
OperationValues ==
  ServerResponses \cup {NoResponseReceived, SetupFailure("Invalid URL")}

NoPerformance == [duration |-> 0, isWithinLimit |-> FALSE, response |-> NullResponse]

IdleMeasure ==
  [pc |-> "idle", maxTime |-> 0, limit |-> NoLimit, startTime |-> 0,
   endTime |-> 0, invocations |-> 0,
   operation |-> [state |-> "none", value |-> NullResponse, completedAt |-> 0],
   result |-> NoPerformance]

\* utils.js:125-127: bind maxTime, read the clock, invoke requestFn, suspend.
MeasureStart(arg) ==
  /\ measure.pc = "idle"
  /\ measure' = [measure EXCEPT !.pc = "awaiting",
                                !.limit = arg,
                                !.maxTime = maxTimeOf(arg),
                                !.startTime = clock,
                                !.invocations = @ + 1,
                                !.operation.state = "pending"]
  /\ UNCHANGED <<clock, requestVars, validateVars, runner, pairTest>>

\* Variant: the end timestamp is read before the operation is awaited.
measurePerformanceEndBeforeAwait(m, response, now) ==
  LET duration == m.startTime - m.startTime
  IN  [m EXCEPT !.pc = "returned",
                !.endTime = m.startTime,
                !.result = [duration |-> duration,
                            isWithinLimit |-> duration <= m.maxTime,
                            response |-> response]]

\* utils.js:127-135: the continuation once requestFn() has resolved.
measurePerformanceResume(m, response, now) ==
  LET duration == now - m.startTime
  IN  [m EXCEPT !.pc = "returned",
                !.endTime = now,
                !.result = [duration |-> duration,
                            isWithinLimit |-> duration <= m.maxTime,
                            response |-> response]]

\* The operation resolves and measurePerformance resumes.
OperationResolves(value) ==
  /\ measure.pc = "awaiting"
  /\ measure' =
       [measurePerformanceResume(measure, value, clock)
          EXCEPT !.operation = [state |-> "resolved", value |-> value,
                                completedAt |-> clock]]
  /\ UNCHANGED <<clock, requestVars, validateVars, runner, pairTest>>

\* The operation rejects: the await of utils.js:127 throws and nothing
\* catches it.
OperationRejects ==
  /\ measure.pc = "awaiting"
  /\ measure' = [measure EXCEPT !.pc = "threw", !.operation.state = "rejected"]
  /\ UNCHANGED <<clock, requestVars, validateVars, runner, pairTest>>

\* Time passes.
Tick(t) ==
  /\ t > clock
  /\ clock' = t
  /\ UNCHANGED <<measure, requestVars, validateVars, runner, pairTest>>

\* The system clock is set back (clock synchronisation, manual change).
ClockSetBack(t) ==
  /\ t < clock
  /\ clock' = t
  /\ UNCHANGED <<measure, requestVars, validateVars, runner, pairTest>>

(***************************************************************************)
(* Successive validateSchema calls on the same record and schema           *)
(* (utils.js:58-72).  The callee receives references to both, so a call    *)
(* could modify them; args is what they are after the calls, given what    *)
(* they were before.                                                       *)
(***************************************************************************)
MaxRepeats == 2

Arguments(response, schema) == [response |-> response, schema |-> schema]

NoRepeats ==
  [given |-> Arguments(JsUndef, Schema({}, <<>>, <<>>)),
   args |-> Arguments(JsUndef, Schema({}, <<>>, <<>>)),
   results |-> <<>>]

\* Variant: the errors array lives outside the function and is never reset.
ValidateSchemaAgainAccumulating ==
  /\ Len(repeats.results) < MaxRepeats
  /\ repeats' =
       [repeats EXCEPT !.results =
          Append(@,
            IF "required" \notin repeats.args.schema.keys
              THEN ValidationThrow("TypeError")
              ELSE ForEachRequired(repeats.args.response,
                                   repeats.args.schema.required, 1,
                                   IF Len(repeats.results) = 0 THEN <<>>
                                   ELSE repeats.results[Len(repeats.results)].errors))]
  /\ UNCHANGED <<validation, requestVars, measureVars, runner, pairTest>>

ValidateSchemaAgain ==
  /\ Len(repeats.results) < MaxRepeats
  /\ repeats' =
       [repeats EXCEPT !.results =
          Append(@, validateSchema(repeats.args.response, repeats.args.schema))]
  /\ UNCHANGED <<validation, requestVars, measureVars, runner, pairTest>>

(***************************************************************************)
(* createTestCase (utils.js:108-117) and the test runner it registers      *)
(* with: test(name, fn, timeout) records the test; the runner later calls  *)
(* fn, whose body returns, throws or rejects.                              *)
(***************************************************************************)
MaxTests == 2

TestNames ==
  {"TC001: Should handle API errors gracefully",
   "TC003: Should handle timeout scenarios",
   "TC009: Should handle network timeouts gracefully"}

\* An error object: id stands for its identity.
Error(id, message) == [id |-> id, message |-> message]

NoError == Error(0, "")

BodyErrors ==
  { Error(1, "expect(received).toBe(expected)"),
    Error(2, "Cannot read properties of undefined (reading 'length')") }

RegisteredTest(name, timeout) ==
  [name |-> name, timeout |-> timeout, pc |-> "registered", body |-> "none",
   thrown |-> NoError, log |-> <<>>, raised |-> FALSE, error |-> NoError]

\* utils.js:108-109, 116: createTestCase hands the wrapper to test().
CreateTestCase(name) ==
  /\ Len(runner) < MaxTests
  /\ \A k \in 1..Len(runner) : runner[k].pc = "registered"
  /\ runner' = Append(runner, RegisteredTest(name, config.timeouts.test))
  /\ UNCHANGED <<requestVars, validateVars, measureVars, pairTest>>

\* The runner calls the wrapper, which calls testFn (utils.js:109-111).
RunTest(k) ==
  /\ runner[k].pc = "registered"
  /\ \A j \in 1..(k - 1) : runner[j].pc \in {"passed", "failed"}
  /\ runner' = [runner EXCEPT ![k].pc = "running"]
  /\ UNCHANGED <<requestVars, validateVars, measureVars, pairTest>>

\* utils.js:111: the body completes; the wrapper returns.
BodyPasses(k) ==
  /\ runner[k].pc = "running"
  /\ runner' = [runner EXCEPT ![k].pc = "passed", ![k].body = "returns"]
  /\ UNCHANGED <<requestVars, validateVars, measureVars, pairTest>>

\* Variant: the catch block logs and swallows the error.
createTestCaseCatchSwallow(test, how, error) ==
  [test EXCEPT !.pc = "passed",
               !.body = how,
               !.log = @ \o <<"Test failed: " \o test.name \o " " \o error.message>>]

\* utils.js:112-115: log the test's name (with the message), rethrow.
createTestCaseCatch(test, how, error) ==
  [test EXCEPT !.pc = "failed",
               !.body = how,
               !.log = @ \o <<"Test failed: " \o test.name \o " " \o error.message>>,
               !.raised = TRUE,
               !.error = error]

\* The body throws before its first await, or its promise rejects; the
\* await inside the try block turns both into the catch block.
BodyFails(k, how, error) ==
  /\ runner[k].pc = "running"
  /\ how \in {"throws", "rejects"}
  /\ runner' = [runner EXCEPT ![k] =
                   createTestCaseCatch([@ EXCEPT !.thrown = error], how, error)]
  /\ UNCHANGED <<requestVars, validateVars, measureVars, pairTest>>

(***************************************************************************)
(* The token-pair tests that request a pair id the service does not know   *)
(* (tokens.test.js:388-412): TC010 with a well-formed id, TC011 with a     *)
(* malformed one.  The service may answer with any of a few statuses and   *)
(* bodies, or not at all.                                                  *)
(***************************************************************************)
tokenPairs == "/api/token-pairs"

invalidPairId ==
  "0x1234567890123456789012345678901234567890-0x0987654321098765432109876543210987654321"

malformedPairId == "invalid-pair-id"

PairTestIds == {"TC010", "TC011"}

PairTestName(t) ==
  IF t = "TC010"
    THEN "TC010: Should return 404 for invalid pair ID when API works"
    ELSE "TC011: Should handle malformed pair ID"

PairTestEndpoint(t) ==
  tokenPairs \o "/" \o (IF t = "TC010" THEN invalidPairId ELSE malformedPairId)

PairStatuses == {200, 400, 404, 500}

PairBodies ==
  { JsObject(<< <<"pair", "{id, token0, token1}">>, <<"success", "ok">> >>),
    JsObject(<< <<"error", "Pair not found">> >>),
    JsObject(<< <<"message", "Not Found">> >>),
    JsObject(<<>>),
    JsString("Server Error"),
    JsString("Not Found") }

PairServiceResponses ==
  { Response(status, data,
             IF data.type = "object" THEN JsonHeaders ELSE HtmlHeaders) :
      status \in PairStatuses, data \in PairBodies }

PairFulfilments == { r \in PairServiceResponses : IsSuccessStatus(r.status) }

PairRejections(cfg) ==
  { AxiosError("Request failed with status code " \o ToString(r.status),
               TRUE, r, TRUE) :
      r \in { s \in PairServiceResponses : ~IsSuccessStatus(s.status) } }
  \cup NoResponseErrors(cfg) \cup SetupErrors

(***************************************************************************)
(* The matchers the test bodies use.  An expectation is the line of the    *)
(* expect call, its matcher and whether the matcher is satisfied.          *)
(***************************************************************************)
toBe(received, expected) == received = expected

toHaveProperty(received, key) ==
  /\ received.type = "object"
  /\ \E i \in 1..Len(received.props) : received.props[i][1] = key

toContain(received, item) == \E i \in 1..Len(received) : received[i] = item

Expectation(line, matcher, pass) ==
  [line |-> line, matcher |-> matcher, pass |-> pass]

\* tokens.test.js:392-404: the expect calls on the branch the response takes.
TC010Expectations(response) ==
  IF response.status = 200
    THEN << Expectation(394, "toBe", toBe(response.status, 404)),
            Expectation(395, "toHaveProperty",
                        toHaveProperty(response.data, "error")) >>
    ELSE << Expectation(398, "toContain",
                        toContain(<<500, 0>>, response.status)) >>
         \o (IF response.status = 500
               THEN << Expectation(400, "toBe",
                                   toBe(response.data, JsString("Server Error"))) >>
             ELSE IF response.status = 0
               THEN << Expectation(402, "toHaveProperty",
                                   toHaveProperty(response.data, "error")) >>
             ELSE <<>>)

\* tokens.test.js:412.
TC011Expectations(response) ==
  << Expectation(412, "toContain", toContain(<<404, 0>>, response.status)) >>

PairTestExpectations(t, response) ==
  IF t = "TC010" THEN TC010Expectations(response)
  ELSE TC011Expectations(response)

\* The error a failed expect call throws.
JestAssertionError(expectation) ==
  Error(expectation.line,
        "expect(received)." \o expectation.matcher \o "(expected)")

(***************************************************************************)
(* One run of one of the tests.  test is the runner's record of the        *)
(* wrapper; at is the position of the body: "idle", "awaiting" (suspended  *)
(* at the await of makeRequest), "asserting", "returned" or "threw";       *)
(* checked counts the expect calls that have been evaluated.               *)
(***************************************************************************)
IdlePairTest ==
  [id |-> "", test |-> [RegisteredTest("", 0) EXCEPT !.pc = "none"],
   at |-> "idle", url |-> "", sent |-> UrlOnly(""), transport |-> NotSettled,
   response |-> NullResponse, log |-> <<>>, checked |-> 0]

\* tokens.test.js:388, 407: createTestCase registers the test.
PairTestRegister(t) ==
  /\ pairTest.test.pc = "none"
  /\ pairTest' = [pairTest EXCEPT
                    !.id = t,
                    !.test = RegisteredTest(PairTestName(t), config.timeouts.test)]
  /\ UNCHANGED <<requestVars, validateVars, measureVars, runner>>

\* The runner calls the wrapper, the wrapper the body, the body makeRequest
\* without options, which suspends at the await of axios (utils.js:10-25).
PairTestRun ==
  /\ pairTest.test.pc = "registered"
  /\ LET url == UrlOf(PairTestEndpoint(pairTest.id))
     IN  pairTest' = [pairTest EXCEPT
                        !.test.pc = "running",
                        !.at = "awaiting",
                        !.url = url,
                        !.sent = AxiosConfig(url, Options(1)),
                        !.log = <<"Making request to: " \o url>>]
  /\ UNCHANGED <<requestVars, validateVars, measureVars, runner>>

PairTestResume(run, transport, completion) ==
  [run EXCEPT !.at = "asserting",
              !.transport = transport,
              !.response = completion.value,
              !.log = @ \o completion.log]

\* utils.js:26-27: the service answered with a 2xx status.
PairTestOnResponse(response) ==
  /\ pairTest.at = "awaiting"
  /\ pairTest' = PairTestResume(pairTest, Fulfilled(response),
                                makeRequestThen(response))
  /\ UNCHANGED <<requestVars, validateVars, measureVars, runner>>

\* utils.js:28-49: the service answered with another status, or not at all.
PairTestOnError(error) ==
  /\ pairTest.at = "awaiting"
  /\ pairTest' = PairTestResume(pairTest, Rejected(error),
                                makeRequestCatch(pairTest.url, error))
  /\ UNCHANGED <<requestVars, validateVars, measureVars, runner>>

\* The next expect call of the body: it returns, or throws and the wrapper
\* catches, logs and rethrows (utils.js:112-115).
PairTestExpect ==
  /\ pairTest.at = "asserting"
  /\ LET expectations == PairTestExpectations(pairTest.id, pairTest.response)
     IN  /\ pairTest.checked < Len(expectations)
         /\ LET expectation == expectations[pairTest.checked + 1]
                error == JestAssertionError(expectation)
            IN  pairTest' =
                  IF expectation.pass
                    THEN [pairTest EXCEPT !.checked = @ + 1]
                    ELSE [pairTest EXCEPT
                            !.checked = @ + 1,
                            !.at = "threw",
                            !.test = createTestCaseCatch(
                                       [@ EXCEPT !.thrown = error],
                                       "rejects", error)]
  /\ UNCHANGED <<requestVars, validateVars, measureVars, runner>>

\* The body runs to its end; the wrapper returns (utils.js:111).
PairTestReturn ==
  /\ pairTest.at = "asserting"
  /\ pairTest.checked = Len(PairTestExpectations(pairTest.id, pairTest.response))
  /\ pairTest' = [pairTest EXCEPT !.at = "returned",
                                  !.test.pc = "passed",
                                  !.test.body = "returns"]
  /\ UNCHANGED <<requestVars, validateVars, measureVars, runner>>

(***************************************************************************)
(* Specifications.                                                         *)
(***************************************************************************)
RequestsIdle ==
  /\ calls = [i \in CallIds |-> IdleCall]
  /\ responses = NotJoined
  /\ config = configModule

MeasureIdle == measure = IdleMeasure

RunnerIdle == runner = <<>>

PairTestIdle == pairTest = IdlePairTest

InitRequest ==
  /\ RequestsIdle
  /\ validation = NoValidation /\ repeats = NoRepeats
  /\ clock = 0 /\ MeasureIdle /\ RunnerIdle /\ PairTestIdle

InitValidate ==
  /\ RequestsIdle
  /\ \E response \in ItemValues \cup ArrayValues, schema \in Schemas :
       validation = Pending(response, schema)
  /\ repeats = NoRepeats
  /\ clock = 0 /\ MeasureIdle /\ RunnerIdle /\ PairTestIdle

InitRepeat ==
  /\ RequestsIdle
  /\ validation = NoValidation
  /\ \E response \in ItemValues, schema \in Schemas :
       repeats = [given |-> Arguments(response, schema),
                  args |-> Arguments(response, schema),
                  results |-> <<>>]
  /\ clock = 0 /\ MeasureIdle /\ RunnerIdle /\ PairTestIdle

InitMeasure ==
  /\ RequestsIdle
  /\ validation = NoValidation /\ repeats = NoRepeats
  /\ clock \in ClockValues /\ MeasureIdle /\ RunnerIdle /\ PairTestIdle

InitRunner ==
  /\ RequestsIdle
  /\ validation = NoValidation /\ repeats = NoRepeats
  /\ clock = 0 /\ MeasureIdle /\ RunnerIdle /\ PairTestIdle

InitPairTest ==
  /\ RequestsIdle
  /\ validation = NoValidation /\ repeats = NoRepeats
  /\ clock = 0 /\ MeasureIdle /\ RunnerIdle /\ PairTestIdle

NextRequest ==
  \/ \E i \in CallIds, endpoint \in Endpoints, n \in OptionIds :
       MakeRequestDispatch(i, endpoint, n)
  \/ \E i \in CallIds, response \in AxiosFulfilments :
       MakeRequestOnResponse(i, response)
  \/ \E i \in CallIds : \E error \in AxiosRejections(calls[i].sent) :
       MakeRequestOnError(i, error)
  \/ AwaitAll

NextValidate ==
  \/ ValidateSchemaCall
  \/ ValidateArraySchemaCall

NextRepeat == ValidateSchemaAgain

NextMeasure ==
  \/ \E arg \in LimitArgs : MeasureStart(arg)
  \/ \E value \in OperationValues : OperationResolves(value)
  \/ OperationRejects
  \/ \E t \in ClockValues : Tick(t)
  \/ \E t \in ClockValues : ClockSetBack(t)

NextRunner ==
  \/ \E name \in TestNames : CreateTestCase(name)
  \/ \E k \in 1..Len(runner) : RunTest(k)
  \/ \E k \in 1..Len(runner) : BodyPasses(k)
  \/ \E k \in 1..Len(runner), how \in {"throws", "rejects"}, error \in BodyErrors :
       BodyFails(k, how, error)

NextPairTest ==
  \/ \E t \in PairTestIds : PairTestRegister(t)
  \/ PairTestRun
  \/ \E response \in PairFulfilments : PairTestOnResponse(response)
  \/ \E error \in PairRejections(pairTest.sent) : PairTestOnError(error)
  \/ PairTestExpect
  \/ PairTestReturn

SpecRequest == InitRequest /\ [][NextRequest]_vars

SpecValidate == InitValidate /\ [][NextValidate]_vars

SpecRepeat == InitRepeat /\ [][NextRepeat]_vars

SpecMeasure == InitMeasure /\ [][NextMeasure]_vars

SpecRunner == InitRunner /\ [][NextRunner]_vars

SpecPairTest == InitPairTest /\ [][NextPairTest]_vars

(***************************************************************************)
(* Properties of makeRequest, checked under SpecRequest.                   *)
(***************************************************************************)
Done(i) == calls[i].pc \in {"returned", "threw"}

\* The transport handed a response to makeRequest, by fulfilment or inside
\* the rejection.
ReceivedResponse(i) ==
  \/ calls[i].transport.kind = "fulfilled"
  \/ calls[i].transport.kind = "rejected" /\ calls[i].transport.error.hasResponse

Received(i) ==
  IF calls[i].transport.kind = "fulfilled"
    THEN calls[i].transport.response
    ELSE calls[i].transport.error.response

\* A request was dispatched and nothing came back.
NoResponse(i) ==
  /\ calls[i].transport.kind = "rejected"
  /\ ~calls[i].transport.error.hasResponse
  /\ calls[i].transport.error.hasRequest

\* The failure happened before a request existed.
SetupError(i) ==
  /\ calls[i].transport.kind = "rejected"
  /\ ~calls[i].transport.error.hasResponse
  /\ ~calls[i].transport.error.hasRequest

IsResponseRecord(r) ==
  /\ DOMAIN r = {"status", "data", "headers"}
  /\ r.status \in Nat
  /\ r.data.type \in {"object", "string"}

\* C1: makeRequest never raises to its caller: whatever the endpoint, the
\* options and the outcome of the transport (2xx response, non-2xx response,
\* no response, timeout, failure before dispatch), a settled call has
\* returned a response record and has not rejected.
C1_NeverRaises ==
  \A i \in CallIds :
    /\ calls[i].pc /= "threw"
    /\ calls[i].pc = "returned" => IsResponseRecord(calls[i].result)

C1_Witness ==
  \E i, j \in CallIds :
    /\ calls[i].pc = "returned" /\ SetupError(i)
    /\ calls[j].pc = "returned" /\ NoResponse(j)

\* C2: when a request was dispatched and no response was received (refused
\* connection, timeout expiry), makeRequest returns exactly
\* {status: 0, data: {error: "No response received"}, headers: {}}.
C2_NoResponseRecord ==
  \A i \in CallIds :
    (Done(i) /\ NoResponse(i)) =>
      /\ calls[i].pc = "returned"
      /\ calls[i].result =
           [status |-> 0,
            data |-> [type |-> "object", text |-> "",
                      props |-> << <<"error", "No response received">> >>],
            headers |-> <<>>]

C2_Witness ==
  \E i \in CallIds :
    /\ calls[i].pc = "returned"
    /\ NoResponse(i)
    /\ calls[i].sent.timeout = 1
    /\ calls[i].transport.error.message = "timeout of 1ms exceeded"
    /\ calls[i].result.status = 0

\* C3: whenever the server returned a status code, 4xx and 5xx included,
\* makeRequest returns the received status, body and headers unchanged; a
\* non-2xx status is neither turned into an error record nor into status 0.
C3_StatusPassedThrough ==
  \A i \in CallIds :
    (Done(i) /\ ReceivedResponse(i)) =>
      /\ calls[i].pc = "returned"
      /\ calls[i].result.status = Received(i).status
      /\ calls[i].result.data = Received(i).data
      /\ calls[i].result.headers = Received(i).headers

C3_Witness ==
  \E i, j \in CallIds :
    /\ calls[i].pc = "returned" /\ calls[i].transport.kind = "rejected"
    /\ calls[i].result.status = 500
    /\ calls[i].result.data = JsString("Server Error")
    /\ calls[j].pc = "returned" /\ calls[j].result.status = 404

\* C4: every returned record has status, data and headers populated; its
\* status is 0 exactly when no response was received (no response, or a
\* failure before dispatch), and otherwise it is the HTTP status received,
\* which is at least 100.
C4_StatusZeroIffNoResponse ==
  \A i \in CallIds :
    calls[i].pc = "returned" =>
      /\ IsResponseRecord(calls[i].result)
      /\ calls[i].result.status = 0 <=> (NoResponse(i) \/ SetupError(i))
      /\ calls[i].result.status /= 0 =>
           /\ ReceivedResponse(i)
           /\ calls[i].result.status = Received(i).status
           /\ calls[i].result.status >= 100

C4_Witness ==
  \E i, j \in CallIds :
    /\ calls[i].pc = "returned" /\ SetupError(i) /\ calls[i].result.status = 0
    /\ calls[j].pc = "returned" /\ calls[j].result.status = 200

(***************************************************************************)
(* Properties of the validators, checked under SpecValidate.               *)
(***************************************************************************)
KeySet(value) == { value.keys[i] : i \in 1..Len(value.keys) }

RequiredSet(schema) == { schema.required[i] : i \in 1..Len(schema.required) }

WellFormed(schema) == "required" \in schema.keys

MissingMessages(value, required) ==
  LET missing == SelectSeq(required, LAMBDA f : f \notin KeySet(value))
  IN  [k \in 1..Len(missing) |-> "Missing required field: " \o missing[k]]

\* C5: validateSchema(R, S).isValid holds exactly when every key of
\* S.required is present in R, whatever the order of R's keys, whatever
\* extra keys R has and whatever S.optional lists.
C5_ValidIffRequiredPresent ==
  (validation.fn = "validateSchema" /\ ~validation.result.threw) =>
    /\ validation.result.isValid <=>
         (RequiredSet(validation.schema) \subseteq KeySet(validation.response))
    /\ \A other \in RecordValues :
         (validation.response.type = "object"
            /\ KeySet(other) \cap RequiredSet(validation.schema)
                 = KeySet(validation.response) \cap RequiredSet(validation.schema))
         => validateSchema(other, validation.schema).isValid
              = validation.result.isValid
    /\ \A optional \in {<<>>, <<"id">>, <<"symbol">>, <<"logo">>} :
         validateSchema(validation.response,
                        [validation.schema EXCEPT !.optional = optional]).isValid
           = validation.result.isValid

C5_Witness ==
  /\ validation.fn = "validateSchema"
  /\ validation.response.keys = <<"symbol", "id">>
  /\ validation.schema.required = <<"id", "symbol">>
  /\ validation.schema.optional = <<"logo">>
  /\ validation.result.isValid

\* C6: validateSchema reports every violation: its errors are exactly the
\* messages "Missing required field: <key>", one for each key of
\* schema.required that the record lacks, in the order of schema.required.
C6_AllMissingReported ==
  (validation.fn = "validateSchema" /\ ~validation.result.threw) =>
    validation.result.errors
      = MissingMessages(validation.response, validation.schema.required)

C6_Witness ==
  /\ validation.fn = "validateSchema"
  /\ validation.response.keys = <<"logo">>
  /\ validation.schema.required = <<"symbol", "id">>
  /\ validation.result.errors = <<"Missing required field: symbol",
                                  "Missing required field: id">>

\* C7: for an input that is not an array, and for any schema, even one
\* without a required list, validateArraySchema returns isValid = false
\* with the single error "Response is not an array".
C7_NonArrayShortCircuit ==
  (validation.fn = "validateArraySchema" /\ validation.response.type /= "array") =>
    /\ ~validation.result.threw
    /\ validation.result.isValid = FALSE
    /\ validation.result.errors = <<"Response is not an array">>

C7_Witness ==
  /\ validation.fn = "validateArraySchema"
  /\ validation.response.type = "null"
  /\ ~WellFormed(validation.schema)
  /\ Len(validation.result.errors) = 1

RECURSIVE ItemMessages(_, _, _)
\* The messages of items 0 .. n-1, each prefixed with its index.
ItemMessages(items, schema, n) ==
  IF n = 0 THEN <<>>
  ELSE LET errs == validateSchema(items[n], schema).errors
       IN  ItemMessages(items, schema, n - 1)
             \o [k \in 1..Len(errs) |-> "Item " \o ToString(n - 1) \o ": " \o errs[k]]

\* C8: for an array [r0..rn], the errors of validateArraySchema are the
\* concatenation, for i = 0..n in ascending order, of "Item i: " + msg for
\* each msg of validateSchema(ri, S).errors in their order; the call fails
\* only when validateSchema fails on some element.
C8_ArrayErrorsConcatenated ==
  (validation.fn = "validateArraySchema" /\ validation.response.type = "array") =>
    LET items == validation.response.items
        schema == validation.schema
    IN  /\ validation.result.threw
             <=> \E n \in 1..Len(items) : validateSchema(items[n], schema).threw
        /\ ~validation.result.threw =>
             validation.result.errors = ItemMessages(items, schema, Len(items))

C8_Witness ==
  /\ validation.fn = "validateArraySchema"
  /\ validation.response.items = <<JsRecord(<<"id">>), JsRecord(<<>>)>>
  /\ validation.schema.required = <<"id", "symbol">>
  /\ validation.result.errors = <<"Item 0: Missing required field: symbol",
                                  "Item 1: Missing required field: id",
                                  "Item 1: Missing required field: symbol">>

\* C9: every ValidationResult returned by validateSchema or
\* validateArraySchema, the non-array short-circuit included, has
\* isValid = (errors.length = 0).
C9_ValidIffNoErrors ==
  (validation.fn /= "none" /\ ~validation.result.threw) =>
    validation.result.isValid = (Len(validation.result.errors) = 0)

C9_Witness ==
  /\ validation.fn = "validateArraySchema"
  /\ validation.response.type = "object"
  /\ ~validation.result.threw
  /\ ~validation.result.isValid

\* C10: a validation failure is never raised as an exception: with a schema
\* that declares its required list, validateSchema returns a result for
\* every value passed as the record, and validateArraySchema for every
\* array whatever its elements are.
C10_NeverThrows ==
  (validation.fn /= "none" /\ WellFormed(validation.schema)) =>
    ~validation.result.threw

(***************************************************************************)
(* Properties of measurePerformance, checked under SpecMeasure.            *)
(***************************************************************************)
\* The flag, the default limit and the subtraction, without the sign of the
\* duration.
MeasureArithmetic ==
  measure.pc = "returned" =>
    LET limit == IF measure.limit.given THEN measure.limit.value ELSE 1000
    IN  /\ measure.result.isWithinLimit = (measure.result.duration <= limit)
        /\ measure.result.duration = measure.endTime - measure.startTime
        /\ measure.result.duration \in Int

\* C11: measurePerformance returns isWithinLimit = (duration <= limit), a
\* duration equal to the limit counting as within it; without a limit
\* argument the limit is 1000 ms; the duration is the end timestamp minus
\* the start timestamp and is an integer >= 0.
C11_FlagLimitAndDuration ==
  /\ MeasureArithmetic
  /\ measure.pc = "returned" => measure.result.duration >= 0

\* C12: measurePerformance invokes the operation once and awaits its
\* completion whatever time has elapsed (no cancel, no retry); the response
\* of its result is the value the operation resolved to, and the end
\* timestamp is read when the operation has completed.
C12_AwaitsCompletionOnce ==
  /\ measure.pc = "awaiting" =>
       /\ measure.invocations = 1
       /\ measure.operation.state = "pending"
       /\ measure.result = NoPerformance
  /\ measure.pc = "returned" =>
       /\ measure.invocations = 1
       /\ measure.operation.state = "resolved"
       /\ measure.result.response = measure.operation.value
       /\ measure.endTime = measure.operation.completedAt

C12_Witness ==
  /\ measure.pc = "returned"
  /\ measure.maxTime = 1000
  /\ measure.result.duration >= 1500
  /\ ~measure.result.isWithinLimit
  /\ measure.result.response = NoResponseReceived

(***************************************************************************)
(* Further properties of makeRequest, checked under SpecRequest.           *)
(***************************************************************************)
\* The record call i owes its caller, from what the transport did to call i
\* alone.
OwnRecord(i) ==
  IF ReceivedResponse(i) THEN Received(i)
  ELSE IF NoResponse(i)
    THEN [status |-> 0,
          data |-> [type |-> "object", text |-> "",
                    props |-> << <<"error", "No response received">> >>],
          headers |-> <<>>]
  ELSE [status |-> 0,
        data |-> [type |-> "object", text |-> "",
                  props |-> << <<"error", calls[i].transport.error.message>> >>],
        headers |-> <<>>]

\* C13: when several makeRequest calls are issued together and awaited
\* together, whatever the order of their completions, the join yields one
\* result per call, result k being the record of call k; nothing is
\* dropped, duplicated or merged, and a settled call's record is not
\* changed by the other calls.
C13_JoinKeepsEachResult ==
  /\ \A k \in CallIds : calls[k].pc = "returned" => calls[k].result = OwnRecord(k)
  /\ responses.joined =>
       /\ ~responses.threw
       /\ DOMAIN responses.values = 1..NCalls
       /\ \A k \in CallIds : responses.values[k] = OwnRecord(k)

C13_Witness ==
  /\ responses.joined
  /\ calls[2].finished = 1
  /\ calls[1].finished > 1
  /\ responses.values[1].status = 200
  /\ responses.values[2].status = 0

\* C14: there is no retry: every makeRequest call dispatches the transport
\* exactly once, whatever the outcome, and returns the result of that
\* single attempt.
C14_SingleAttempt ==
  \A i \in CallIds :
    /\ calls[i].dispatched = IF calls[i].pc = "idle" THEN 0 ELSE 1
    /\ Done(i) => (calls[i].pc = "returned" /\ calls[i].result = OwnRecord(i))

C14_Witness ==
  \E i, j \in CallIds :
    /\ Done(i) /\ NoResponse(i) /\ calls[i].dispatched = 1
    /\ Done(j) /\ calls[j].result.status = 500 /\ calls[j].dispatched = 1

HeaderSet(headers) == { headers[k] : k \in 1..Len(headers) }

HeaderNames(headers) == { headers[k][1] : k \in 1..Len(headers) }

\* The caller's headers over the defaults, the caller winning.
MergedHeaders(defaults, own) ==
  { h \in HeaderSet(defaults) : h[1] \notin HeaderNames(own) } \cup HeaderSet(own)

CallerHeaders(i) ==
  IF "headers" \in calls[i].options.keys THEN calls[i].options.headers ELSE <<>>

\* C15: the headers makeRequest sends are the default headers merged with
\* the caller's options.headers, the caller winning for a header in both;
\* the request carries Content-Type: application/json unless the caller
\* supplies a Content-Type of its own.
C15_HeadersMerged ==
  \A i \in CallIds :
    calls[i].pc /= "idle" =>
      /\ HeaderSet(calls[i].sent.headers)
           = MergedHeaders(<< <<"Content-Type", "application/json">> >>,
                           CallerHeaders(i))
      /\ "Content-Type" \notin HeaderNames(CallerHeaders(i)) =>
           <<"Content-Type", "application/json">> \in HeaderSet(calls[i].sent.headers)

\* C16: when the failure happens before the request was dispatched (no
\* response, no request), makeRequest returns
\* {status: 0, data: {error: <the failure's description>}, headers: {}}.
C16_SetupFailureRecord ==
  \A i \in CallIds :
    (Done(i) /\ SetupError(i)) =>
      /\ calls[i].pc = "returned"
      /\ calls[i].result =
           [status |-> 0,
            data |-> [type |-> "object", text |-> "",
                      props |-> << <<"error", calls[i].transport.error.message>> >>],
            headers |-> <<>>]

C16_Witness ==
  \E i \in CallIds :
    /\ calls[i].pc = "returned"
    /\ SetupError(i)
    /\ calls[i].result.data.props
         = << <<"error", "Data after transformation must be a string">> >>

\* C17: the timeout in force for a call is the caller's override when
\* options has one and the configured default otherwise; an override holds
\* for its call only, the configuration being left as it was.
C17_TimeoutInForce ==
  /\ config.timeouts.request = 5000
  /\ \A i \in CallIds :
       calls[i].pc /= "idle" =>
         calls[i].sent.timeout =
           IF "timeout" \in calls[i].options.keys
             THEN calls[i].options.timeout ELSE 5000

C17_Witness ==
  /\ calls[1].pc /= "idle"
  /\ calls[1].options.keys = {"timeout"} /\ calls[1].sent.timeout = 1
  /\ calls[2].pc /= "idle"
  /\ "timeout" \notin calls[2].options.keys /\ calls[2].sent.timeout = 5000

AnsweredNotFoundWithError ==
  /\ pairTest.transport.kind = "rejected"
  /\ pairTest.transport.error.hasResponse
  /\ pairTest.transport.error.response.status = 404
  /\ toHaveProperty(pairTest.transport.error.response.data, "error")

PairTestOver == pairTest.at \in {"returned", "threw"}

\* C21: test TC010 passes when the service answers the request for an
\* unknown pair id with status 404 and a body that has an error field.
C21_TC010PassesOnNotFound ==
  (pairTest.id = "TC010" /\ PairTestOver /\ AnsweredNotFoundWithError)
    => pairTest.test.pc = "passed"

====
